---------------------------- MODULE Spec2Model ----------------------------
(***************************************************************************)
(* Barnes-Hut simulation (src/main.cc): the quadtree (insert, subdivide,   *)
(* mass aggregation) and the hand-off between the simulation thread and    *)
(* the rendering loop of main.                                             *)
(*                                                                         *)
(* Three state machines share the module.  TreeSpec drives the quadtree of *)
(* one simulation step (lines 263-267, 277); ForceSpec drives the parallel *)
(* force pass of a step over an aggregated tree (lines 269-277); Spec      *)
(* drives the two threads of main (lines 223-303 and 309-427), where a     *)
(* snapshot of the bodies is identified by the number of steps that        *)
(* produced it.                                                            *)
(*                                                                         *)
(* Arithmetic.  The program computes in float.  The model's floats are the *)
(* integers: a coordinate is counted in units of the spacing of the        *)
(* representable numbers, sums, differences and products are exact, and a  *)
(* quotient or a square root is rounded to the nearest representable       *)
(* number, a quotient's ties to even, as                                   *)
(* IEEE-754 does.  A boundary one unit wide therefore halves to width 0,   *)
(* which is what float does to a boundary at the end of its resolution.    *)
(***************************************************************************)
EXTENDS Integers, Sequences, FiniteSets, TLC

VARIABLES
    \* ---- quadtree of one step (sim_thread, lines 263-267, 277)
    root,            \* bh::quad_node_t *root
    bodies,          \* the bodies of local_points inserted so far, in order
    tpc,             \* "build" (insert loop) | "mass" (after compute_mass)
                     \* | "force" (parallel pass) | "freed" (after line 277)
    \* ---- force pass of one step (sim_thread, lines 269-275)
    bh,              \* the globals of namespace bh (lines 13-16)
    local_bodies,    \* local_points, body by body
    task             \* per body: "force" (line 272) | "move" (273-274) | "done"

passVars == <<bh, local_bodies, task>>
treeVars == <<root, bodies, tpc, passVars>>

VARIABLES
    \* ---- shared between the two threads (main, lines 223-237)
    points_mutex,        \* std::mutex: "none" or the thread that holds it
    running,             \* std::atomic<bool>
    update_done,         \* std::atomic<bool>
    do_update,           \* std::atomic<bool>
    points_previous,     \* snapshot: the number of the step that produced it
    points_current,
    last_sim_update,     \* time stamp: the number of the publish that took it
    sim_update_interval, \* <<>> while never written, <<k>> as written by publish k
    \* ---- simulation thread (lines 246-303)
    spc,                 \* position of the thread
    local_points,        \* the working copy
    \* ---- main's rendering loop (lines 309-427)
    cpc,                 \* position of the loop
    window_open,         \* window.isOpen ()
    do_interpolate,
    render_previous,
    render_current,
    alpha,               \* "zero", "clamped" or "indeterminate"
    \* ---- history
    publishes            \* publish critical sections completed so far

threadVars ==
    << points_mutex, running, update_done, do_update, points_previous,
       points_current, last_sim_update, sim_update_interval, spc, local_points,
       cpc, window_open, do_interpolate, render_previous, render_current, alpha,
       publishes >>

(***************************************************************************)
(* Bounds of the model.                                                    *)
(***************************************************************************)
\* QT_SIZE of the program (line 171) in units of the float spacing: the root
\* boundary is the square [-QT_SIZE, QT_SIZE) x [-QT_SIZE, QT_SIZE).
QT_SIZE == 2
\* Longest sequence of bodies inserted into one tree.
MaxBodies == 3
\* Steps the simulation thread starts while the program runs.
MaxSteps == 2

(***************************************************************************)
(* Float arithmetic.                                                       *)
(***************************************************************************)
Abs(a) == IF a < 0 THEN 0 - a ELSE a

\* a / b for b > 0, rounded to the nearest representable number, ties to even.
RoundDiv(a, b) ==
    LET n == Abs(a)
        q == n \div b
        r == n % b
        up == (2 * r > b) \/ (2 * r = b /\ q % 2 = 1)
        m == IF up THEN q + 1 ELSE q
    IN IF a < 0 THEN 0 - m ELSE m

Min(a, b) == IF a < b THEN a ELSE b
Max(a, b) == IF a < b THEN b ELSE a

\* A float that is an infinity or a NaN.  The model does not tell the two
\* apart: the program never tests for either, and each comparison it makes
\* with one of them (ratio < THETA with ratio = w / 0, w >= 0) is false.
NonFinite == 0 - 1000000
IsFinite(a) == a # NonFinite

\* a / b in float: x / 0 is an infinity or a NaN.
FDiv(a, b) ==
    IF ~IsFinite(a) \/ ~IsFinite(b) \/ b = 0 THEN NonFinite
    ELSE IF b < 0 THEN RoundDiv(0 - a, 0 - b)
    ELSE RoundDiv(a, b)

FAdd(a, b) == IF IsFinite(a) /\ IsFinite(b) THEN a + b ELSE NonFinite
FMul(a, b) == IF IsFinite(a) /\ IsFinite(b) THEN a * b ELSE NonFinite

\* std::sqrt of n >= 0, rounded to the nearest representable number.
RoundSqrt(n) ==
    LET k == CHOOSE k \in 0..n : k * k <= n /\ (k + 1) * (k + 1) > n
    IN IF n - k * k > k THEN k + 1 ELSE k

(***************************************************************************)
(* The globals of namespace bh (lines 13-16).  THETA is compared with the  *)
(* ratio width / distance, a number without unit: both are counted in      *)
(* halves, so that the program's 0.5 is 1.  SOFTENING is a length;         *)
(* GRAVITY_CONSTANT and TIME_STEP scale the velocity increment.            *)
(***************************************************************************)
Config(theta, gravity_constant, time_step, softening) ==
    [ THETA |-> theta, GRAVITY_CONSTANT |-> gravity_constant,
      TIME_STEP |-> time_step, SOFTENING |-> softening ]

\* Lines 216-219: 0.5f, 1, 1, 1.
ProgramConfig == Config(1, 1, 1, 1)

(***************************************************************************)
(* bh::point_t and the bodies the model inserts.                           *)
(***************************************************************************)
point_init(mass, position, velocity) ==
    [mass |-> mass, position |-> position, velocity |-> velocity]

Masses == {1, 2}

\* Positions on both sides of every edge of the root boundary and of its
\* first subdivisions.
Positions ==
    { <<0, 0>>, <<0 - 1, 0 - 1>>, <<0 - QT_SIZE, 0 - QT_SIZE>>,
      <<QT_SIZE - 1, 0>>, <<QT_SIZE, 0>>, <<0, 0 - QT_SIZE - 1>> }

Bodies == { point_init(m, p, <<0, 0>>) : m \in Masses, p \in Positions }

(***************************************************************************)
(* sf::FloatRect and bh::quad_node_t.  A pointer is a sequence: <<>> is    *)
(* NULL, <<n>> points to node n; std::optional likewise.                   *)
(***************************************************************************)
FloatRect(left, top, width, height) ==
    [left |-> left, top |-> top, width |-> width, height |-> height]

\* sf::Rect<T>::contains (SFML 2): half-open on the right and bottom edges.
contains(rect, p) ==
    LET minX == Min(rect.left, rect.left + rect.width)
        maxX == Max(rect.left, rect.left + rect.width)
        minY == Min(rect.top, rect.top + rect.height)
        maxY == Max(rect.top, rect.top + rect.height)
    IN  /\ p[1] >= minX /\ p[1] < maxX
        /\ p[2] >= minY /\ p[2] < maxY

quad_node_init(boundary) ==
    [ total_mass |-> 0,
      center_of_mass |-> <<0, 0>>,
      boundary |-> boundary,
      point |-> <<>>,
      children |-> << <<>>, <<>>, <<>>, <<>> >> ]

quad_node_is_leaf(node) == \A i \in 1..4 : node.children[i] = <<>>

\* quad_node_subdivide with the children given the size of their parent.
quad_node_subdivide_not_halved(node) ==
    LET b == node.boundary
        quadrants ==
            << FloatRect(b.left, b.top, b.width, b.height),
               FloatRect(b.left + b.width, b.top, b.width, b.height),
               FloatRect(b.left, b.top + b.height, b.width, b.height),
               FloatRect(b.left + b.width, b.top + b.height, b.width, b.height) >>
    IN [node EXCEPT !.children = [i \in 1..4 |-> << quad_node_init(quadrants[i]) >>]]

quad_node_subdivide(node) ==
    LET b == node.boundary
        center == << b.left + RoundDiv(b.width, 2), b.top + RoundDiv(b.height, 2) >>
        hw == RoundDiv(b.width, 2)
        hh == RoundDiv(b.height, 2)
        quadrants ==
            << FloatRect(b.left, b.top, hw, hh),
               FloatRect(center[1], b.top, hw, hh),
               FloatRect(b.left, center[2], hw, hh),
               FloatRect(center[1], center[2], hw, hh) >>
    IN [node EXCEPT !.children = [i \in 1..4 |-> << quad_node_init(quadrants[i]) >>]]

RECURSIVE quad_node_insert(_, _)

\* for (auto child : node->children) bh::quad_node_insert (child, point);
InsertChildren(node, point) ==
    [node EXCEPT !.children =
        [i \in 1..4 |-> << quad_node_insert(node.children[i][1], point) >>]]

\* quad_node_insert with line 103 (node->point.reset ()) left out.
quad_node_insert_no_reset(node, point) ==
    IF ~contains(node.boundary, point.position) THEN node
    ELSE IF quad_node_is_leaf(node) THEN
        IF node.point = <<>> THEN [node EXCEPT !.point = <<point>>]
        ELSE LET save == node.point[1]
                 sub == quad_node_subdivide(node)
             IN InsertChildren(InsertChildren(sub, save), point)
    ELSE InsertChildren(node, point)

\* quad_node_insert with the boundary test of line 92 made after the store
\* of line 98 instead of before it.
quad_node_insert_late_test(node, point) ==
    IF quad_node_is_leaf(node) /\ node.point = <<>>
    THEN [node EXCEPT !.point = <<point>>]
    ELSE IF ~contains(node.boundary, point.position) THEN node
    ELSE IF quad_node_is_leaf(node) THEN
        LET save == node.point[1]
            sub == [quad_node_subdivide(node) EXCEPT !.point = <<>>]
        IN InsertChildren(InsertChildren(sub, save), point)
    ELSE InsertChildren(node, point)

\* quad_node_insert with the boundary test of line 92 made on x alone.
quad_node_insert_x_only(node, point) ==
    IF ~contains([node.boundary EXCEPT !.top = point.position[2], !.height = 1],
                 point.position)
    THEN node
    ELSE IF quad_node_is_leaf(node) THEN
        IF node.point = <<>> THEN [node EXCEPT !.point = <<point>>]
        ELSE LET save == node.point[1]
                 sub == [quad_node_subdivide(node) EXCEPT !.point = <<>>]
             IN InsertChildren(InsertChildren(sub, save), point)
    ELSE InsertChildren(node, point)

quad_node_insert(node, point) ==
    IF ~contains(node.boundary, point.position) THEN node
    ELSE IF quad_node_is_leaf(node) THEN
        IF node.point = <<>> THEN [node EXCEPT !.point = <<point>>]
        ELSE LET save == node.point[1]
                 sub == [quad_node_subdivide(node) EXCEPT !.point = <<>>]
             IN InsertChildren(InsertChildren(sub, save), point)
    ELSE InsertChildren(node, point)

RECURSIVE quad_node_compute_mass(_)

\* The loop of lines 130-135 over children 1..i of a node whose children
\* have already been aggregated.
RECURSIVE SumChildren(_, _)
SumChildren(kids, i) ==
    IF i = 0 THEN [total_mass |-> 0, center_of_mass |-> <<0, 0>>]
    ELSE LET acc == SumChildren(kids, i - 1)
             child == kids[i][1]
         IN [ total_mass |-> acc.total_mass + child.total_mass,
              center_of_mass |->
                << acc.center_of_mass[1] + child.center_of_mass[1] * child.total_mass,
                   acc.center_of_mass[2] + child.center_of_mass[2] * child.total_mass >> ]

\* quad_node_compute_mass without the test of line 136.
RECURSIVE quad_node_compute_mass_unguarded(_)
quad_node_compute_mass_unguarded(node) ==
    IF quad_node_is_leaf(node) THEN
        IF node.point # <<>>
        THEN [node EXCEPT !.center_of_mass = node.point[1].position,
                          !.total_mass = node.point[1].mass]
        ELSE node
    ELSE LET kids == [i \in 1..4 |->
                         << quad_node_compute_mass_unguarded(node.children[i][1]) >>]
             acc == SumChildren(kids, 4)
         IN [node EXCEPT
                !.children = kids,
                !.total_mass = acc.total_mass,
                !.center_of_mass =
                    << FDiv(acc.center_of_mass[1], acc.total_mass),
                       FDiv(acc.center_of_mass[2], acc.total_mass) >>]

quad_node_compute_mass(node) ==
    IF quad_node_is_leaf(node) THEN
        IF node.point # <<>>
        THEN [node EXCEPT !.center_of_mass = node.point[1].position,
                          !.total_mass = node.point[1].mass]
        ELSE node
    ELSE LET kids == [i \in 1..4 |-> << quad_node_compute_mass(node.children[i][1]) >>]
             acc == SumChildren(kids, 4)
         IN [node EXCEPT
                !.children = kids,
                !.total_mass = acc.total_mass,
                !.center_of_mass =
                    IF acc.total_mass > 0
                    THEN << RoundDiv(acc.center_of_mass[1], acc.total_mass),
                            RoundDiv(acc.center_of_mass[2], acc.total_mass) >>
                    ELSE acc.center_of_mass]

(***************************************************************************)
(* bh::quad_node_compute_force (lines 141-167).  The traversal carries the *)
(* body it updates and two records of what it did: the number of nodes it  *)
(* was called on, and the nodes whose branch of lines 153-160 it took,     *)
(* each named by its path from the root (the child indices, in order).     *)
(***************************************************************************)
Traversal(point) == [point |-> point, visited |-> 0, contributors |-> <<>>]

\* Lines 148-151.
Direction(node, point) ==
    << node.center_of_mass[1] - point.position[1],
       node.center_of_mass[2] - point.position[2] >>

Distance(node, point, g) ==
    LET direction == Direction(node, point)
    IN RoundSqrt(direction[1] * direction[1] + direction[2] * direction[2]
                 + g.SOFTENING * g.SOFTENING)

\* Line 152, in halves.
Ratio(node, point, g) == FDiv(2 * node.boundary.width, Distance(node, point, g))

\* Lines 155-159: the velocity of point after the contribution of node.
Accelerated(node, point, g) ==
    LET direction == Direction(node, point)
        distance == Distance(node, point, g)
        force == FDiv(g.GRAVITY_CONSTANT * node.total_mass * point.mass,
                      distance * distance + g.SOFTENING * g.SOFTENING)
        acceleration ==
            [ k \in 1..2 |->
                FDiv(FMul(FDiv(direction[k], distance), force), point.mass) ]
    IN [ k \in 1..2 |->
           FAdd(point.velocity[k], FMul(acceleration[k], g.TIME_STEP)) ]

\* Lines 273-274: position += velocity * bh::TIME_STEP.
Moved(point, g) ==
    [point EXCEPT !.position =
        [ k \in 1..2 |-> FAdd(point.position[k],
                              FMul(point.velocity[k], g.TIME_STEP)) ]]

RECURSIVE quad_node_compute_force(_, _, _, _)

\* The loop of lines 164-165 over children 1..i.
RECURSIVE ForceChildren(_, _, _, _, _)
ForceChildren(node, path, t, g, i) ==
    IF i = 0 THEN t
    ELSE quad_node_compute_force(node.children[i][1], Append(path, i),
                                 ForceChildren(node, path, t, g, i - 1), g)

\* quad_node_compute_force with the test of line 153 turned round.
quad_node_compute_force_inverted(node, path, t, g) ==
    LET point == t.point
        called == [t EXCEPT !.visited = @ + 1]
        ratio == Ratio(node, point, g)
    IN IF node.total_mass = 0 \/ point.position = node.center_of_mass THEN called
       ELSE IF quad_node_is_leaf(node) \/ (IsFinite(ratio) /\ ratio > g.THETA) THEN
           [called EXCEPT !.point.velocity = Accelerated(node, point, g),
                          !.contributors = Append(@, path)]
       ELSE ForceChildren(node, path, called, g, 4)

\* quad_node_compute_force without the second test of line 144.
quad_node_compute_force_no_self_test(node, path, t, g) ==
    LET point == t.point
        called == [t EXCEPT !.visited = @ + 1]
        ratio == Ratio(node, point, g)
    IN IF node.total_mass = 0 THEN called
       ELSE IF quad_node_is_leaf(node) \/ (IsFinite(ratio) /\ ratio < g.THETA) THEN
           [called EXCEPT !.point.velocity = Accelerated(node, point, g),
                          !.contributors = Append(@, path)]
       ELSE ForceChildren(node, path, called, g, 4)

\* quad_node_compute_force with the integration of lines 273-274 done at line
\* 159, for each contribution.
quad_node_compute_force_moving(node, path, t, g) ==
    LET point == t.point
        called == [t EXCEPT !.visited = @ + 1]
        ratio == Ratio(node, point, g)
    IN IF node.total_mass = 0 \/ point.position = node.center_of_mass THEN called
       ELSE IF quad_node_is_leaf(node) \/ (IsFinite(ratio) /\ ratio < g.THETA) THEN
           [called EXCEPT
               !.point = Moved([point EXCEPT
                                   !.velocity = Accelerated(node, point, g)], g),
               !.contributors = Append(@, path)]
       ELSE ForceChildren(node, path, called, g, 4)

quad_node_compute_force(node, path, t, g) ==
    LET point == t.point
        called == [t EXCEPT !.visited = @ + 1]
        ratio == Ratio(node, point, g)
    IN IF node.total_mass = 0 \/ point.position = node.center_of_mass THEN called
       ELSE IF quad_node_is_leaf(node) \/ (IsFinite(ratio) /\ ratio < g.THETA) THEN
           [called EXCEPT !.point.velocity = Accelerated(node, point, g),
                          !.contributors = Append(@, path)]
       ELSE ForceChildren(node, path, called, g, 4)

\* bh::quad_node_compute_force (*root, &point) with the globals g.
ComputeForce(tree, point, g) ==
    quad_node_compute_force(tree, <<>>, Traversal(point), g)

\* bh::quad_node_init ({ -QT_SIZE, -QT_SIZE, QT_SIZE * 2, QT_SIZE * 2 })
NewRoot == quad_node_init(FloatRect(0 - QT_SIZE, 0 - QT_SIZE, QT_SIZE * 2, QT_SIZE * 2))

\* The tree of lines 263-266 for the bodies seq.
RECURSIVE Build(_)
Build(seq) ==
    IF seq = <<>> THEN NewRoot
    ELSE quad_node_insert(Build(SubSeq(seq, 1, Len(seq) - 1)), seq[Len(seq)])

(***************************************************************************)
(* The quadtree of one step.                                               *)
(***************************************************************************)
TreeInit ==
    /\ root = NewRoot
    /\ bodies = <<>>
    /\ tpc = "build"
    /\ bh = ProgramConfig
    /\ local_bodies = <<>>
    /\ task = <<>>

\* One iteration of the loop of lines 265-266.
TreeInsert(p) ==
    /\ tpc = "build"
    /\ Len(bodies) < MaxBodies
    /\ root' = quad_node_insert(root, p)
    /\ bodies' = Append(bodies, p)
    /\ UNCHANGED << tpc, passVars, threadVars >>

\* Line 267.
TreeComputeMass ==
    /\ tpc = "build"
    /\ root' = quad_node_compute_mass(root)
    /\ tpc' = "mass"
    /\ UNCHANGED << bodies, passVars, threadVars >>

\* Line 277, and the next step's line 263.
TreeFree ==
    /\ tpc = "mass"
    /\ root' = NewRoot
    /\ bodies' = <<>>
    /\ tpc' = "build"
    /\ UNCHANGED << passVars, threadVars >>

TreeNext ==
    \/ \E p \in Bodies : TreeInsert(p)
    \/ TreeComputeMass
    \/ TreeFree

(***************************************************************************)
(* The force pass of one step (lines 269-277): one task per body, run in   *)
(* any order and interleaved by "#pragma omp parallel for".  It starts     *)
(* from the aggregated tree of the bodies of local_points.                 *)
(***************************************************************************)
\* Three bodies on a diagonal of the root, the one in the middle halfway
\* between the two others, one of them moving.  A sequence may hold a body
\* more than once: bodies at one position, which the tree drops.
PassBodies ==
    { point_init(1, <<0, 0>>, <<0, 0>>),
      point_init(1, <<0 - 1, 0 - 1>>, <<0, 0>>),
      point_init(1, <<1, 1>>, <<1, 0>>) }

\* The values given to the globals: theta 0, 0.5 and 2; the program's
\* gravity constant and time step, or larger ones; softening 0 and 1.
PassConfigs ==
    { Config(theta, scale[1], scale[2], softening) :
        theta \in {0, 1, 4}, scale \in { <<1, 1>>, <<8, 2>> },
        softening \in {0, 1} }

PassInit ==
    /\ bh \in PassConfigs
    /\ local_bodies \in UNION { [1..n -> PassBodies] : n \in 1..MaxBodies }
    /\ bodies = local_bodies
    /\ root = quad_node_compute_mass(Build(local_bodies))
    /\ tpc = "force"
    /\ task = [i \in 1..Len(local_bodies) |-> "force"]

\* Line 272: bh::quad_node_compute_force (*root, &local_points[i]);
PassForce(i) ==
    /\ tpc = "force"
    /\ task[i] = "force"
    /\ local_bodies' =
          [local_bodies EXCEPT ![i] = ComputeForce(root, local_bodies[i], bh).point]
    /\ task' = [task EXCEPT ![i] = "move"]
    /\ UNCHANGED << root, bodies, tpc, bh, threadVars >>

\* Lines 273-274: local_points[i].position += velocity * bh::TIME_STEP;
PassMove(i) ==
    /\ tpc = "force"
    /\ task[i] = "move"
    /\ local_bodies' = [local_bodies EXCEPT ![i] = Moved(local_bodies[i], bh)]
    /\ task' = [task EXCEPT ![i] = "done"]
    /\ UNCHANGED << root, bodies, tpc, bh, threadVars >>

\* Line 277, once every task has ended.
PassFree ==
    /\ tpc = "force"
    /\ \A i \in DOMAIN task : task[i] = "done"
    /\ root' = NewRoot
    /\ tpc' = "freed"
    /\ UNCHANGED << bodies, passVars, threadVars >>

PassNext ==
    \/ \E i \in DOMAIN task : PassForce(i)
    \/ \E i \in DOMAIN task : PassMove(i)
    \/ PassFree

(***************************************************************************)
(* The two threads of main.  A snapshot (a std::vector<bh::point_t>) is    *)
(* named by the number of simulation steps that produced it from the       *)
(* initial points, which are snapshot 0.                                   *)
(***************************************************************************)
\* A std::vector that holds no bodies (line 257, and after line 302).
EmptyVec == -1
\* What a copy yields that ran while the other thread was writing its source.
Torn == -2

\* Lines 263-283: tree, force pass and integration applied to a working copy.
StepResult(snapshot) == snapshot + 1

ThreadInit ==
    /\ points_mutex = "none"
    /\ running = TRUE
    /\ update_done = FALSE
    /\ do_update = TRUE
    /\ points_previous = 0
    /\ points_current = 0
    /\ last_sim_update = 0
    /\ sim_update_interval = <<>>
    /\ spc = "loop"
    /\ local_points = EmptyVec
    /\ cpc = "frame"
    /\ window_open = TRUE
    /\ do_interpolate = FALSE
    /\ render_previous = 0
    /\ render_current = 0
    /\ alpha = "zero"
    /\ publishes = 0

simShared ==
    << points_mutex, update_done, points_previous, points_current,
       last_sim_update, sim_update_interval, local_points, publishes >>
consVars ==
    << cpc, window_open, do_interpolate, render_previous, render_current, alpha >>
consShared == << running, do_update >>

\* The model lets the thread start MaxSteps steps while the program runs; a
\* step the code starts after running was cleared is let through.
StepInBounds ==
    \/ publishes < MaxSteps
    \/ ~running /\ publishes < MaxSteps + 1

(***************************************************************************)
(* sim_thread.                                                             *)
(***************************************************************************)
\* Line 247 without its test of running.
SimLoopNoTest ==
    /\ spc = "loop"
    /\ spc' = "wait"
    /\ UNCHANGED << treeVars, simShared, consVars, consShared >>

\* Line 247: while (running.load ())
SimLoop ==
    /\ spc = "loop"
    /\ spc' = IF running THEN "wait" ELSE "done"
    /\ UNCHANGED << treeVars, simShared, consVars, consShared >>

\* Line 249, reached from line 247: while (!do_update.load ())
SimWait ==
    /\ spc = "wait"
    /\ do_update => StepInBounds
    /\ spc' = IF do_update THEN "lock1" ELSE "wait_run"
    /\ UNCHANGED << treeVars, simShared, consVars, consShared >>

\* Lines 251-252: if (!running.load ()) return;
SimWaitRun ==
    /\ spc = "wait_run"
    /\ spc' = IF ~running THEN "done" ELSE "sleep"
    /\ UNCHANGED << treeVars, simShared, consVars, consShared >>

\* Lines 253 and 249 with the permission flag never read again.
SimSleepNoTest ==
    /\ spc = "sleep"
    /\ StepInBounds
    /\ spc' = "lock1"
    /\ UNCHANGED << treeVars, simShared, consVars, consShared >>

\* Line 253 and the test of line 249 that follows it.
SimSleep ==
    /\ spc = "sleep"
    /\ do_update => StepInBounds
    /\ spc' = IF do_update THEN "lock1" ELSE "wait_run"
    /\ UNCHANGED << treeVars, simShared, consVars, consShared >>

\* Lines 256-259: the step starts; lock_guard of the copy.
SimLockCopy ==
    /\ spc = "lock1"
    /\ points_mutex = "none"
    /\ points_mutex' = "sim"
    /\ spc' = "copy"
    /\ UNCHANGED << treeVars, update_done, points_previous, points_current,
                    last_sim_update, sim_update_interval, local_points,
                    publishes, consVars, consShared >>

\* Lines 260-261: local_points = points_current; the lock_guard ends.
SimCopy ==
    /\ spc = "copy"
    /\ local_points' = points_current
    /\ points_mutex' = "none"
    /\ spc' = "step"
    /\ UNCHANGED << treeVars, update_done, points_previous, points_current,
                    last_sim_update, sim_update_interval, publishes, consVars,
                    consShared >>

\* Lines 263-283.
SimStep ==
    /\ spc = "step"
    /\ local_points' = StepResult(local_points)
    /\ spc' = "lock2"
    /\ UNCHANGED << treeVars, points_mutex, update_done, points_previous,
                    points_current, last_sim_update, sim_update_interval,
                    publishes, consVars, consShared >>

\* Line 286.
SimLockPublish ==
    /\ spc = "lock2"
    /\ points_mutex = "none"
    /\ points_mutex' = "sim"
    /\ spc' = "swap1"
    /\ UNCHANGED << treeVars, update_done, points_previous, points_current,
                    last_sim_update, sim_update_interval, local_points,
                    publishes, consVars, consShared >>

\* Line 288 left out.
SimSwapPrevCurSkipped ==
    /\ spc = "swap1"
    /\ spc' = "swap2"
    /\ UNCHANGED << treeVars, points_mutex, update_done, points_previous,
                    points_current, last_sim_update, sim_update_interval,
                    local_points, publishes, consVars, consShared >>

\* Line 288: std::swap (points_previous, points_current);
SimSwapPrevCur ==
    /\ spc = "swap1"
    /\ points_previous' = points_current
    /\ points_current' = points_previous
    /\ spc' = "swap2"
    /\ UNCHANGED << treeVars, points_mutex, update_done, last_sim_update,
                    sim_update_interval, local_points, publishes, consVars,
                    consShared >>

\* Line 289 with a return on a cleared running flag before it.
SimSwapCurLocalOrExit ==
    /\ spc = "swap2"
    /\ IF running
       THEN /\ points_current' = local_points
            /\ local_points' = points_current
            /\ spc' = "stamp"
       ELSE /\ spc' = "done"
            /\ UNCHANGED << points_current, local_points >>
    /\ UNCHANGED << treeVars, points_mutex, update_done, points_previous,
                    last_sim_update, sim_update_interval, publishes, consVars,
                    consShared >>

\* Line 289: std::swap (points_current, local_points);
SimSwapCurLocal ==
    /\ spc = "swap2"
    /\ points_current' = local_points
    /\ local_points' = points_current
    /\ spc' = "stamp"
    /\ UNCHANGED << treeVars, points_mutex, update_done, points_previous,
                    last_sim_update, sim_update_interval, publishes, consVars,
                    consShared >>

\* Lines 291-293: the two stamps; the lock_guard ends.
SimStamp ==
    /\ spc = "stamp"
    /\ last_sim_update' = publishes + 1
    /\ sim_update_interval' = << publishes + 1 >>
    /\ points_mutex' = "none"
    /\ publishes' = publishes + 1
    /\ spc' = "signal"
    /\ UNCHANGED << treeVars, update_done, points_previous, points_current,
                    local_points, consVars, consShared >>

\* Lines 295-302: update_done.store (1); local_points goes out of scope.
SimSignal ==
    /\ spc = "signal"
    /\ update_done' = TRUE
    /\ local_points' = EmptyVec
    /\ spc' = "loop"
    /\ UNCHANGED << treeVars, points_mutex, points_previous, points_current,
                    last_sim_update, sim_update_interval, publishes, consVars,
                    consShared >>

SimNext ==
    \/ SimLoop
    \/ SimWait
    \/ SimWaitRun
    \/ SimSleep
    \/ SimLockCopy
    \/ SimCopy
    \/ SimStep
    \/ SimLockPublish
    \/ SimSwapPrevCur
    \/ SimSwapCurLocal
    \/ SimStamp
    \/ SimSignal

(***************************************************************************)
(* main's rendering loop.  It never locks points_mutex.  A read that is    *)
(* enabled together with a write of the other thread to the same object is *)
(* a data race: it may yield the value or anything else.                   *)
(***************************************************************************)
ReadVector(value, racing) == {value} \cup (IF racing THEN {Torn} ELSE {})

\* Line 309 with the window closed: the loop ends.
ConsLoopExit ==
    /\ cpc = "frame"
    /\ ~window_open
    /\ cpc' = "stop"
    /\ UNCHANGED << treeVars, window_open, do_interpolate, render_previous,
                    render_current, alpha, consShared, simShared, spc >>

\* Lines 309-357: the events of one frame (Closed, Tab) and the drawing set-up.
ConsEvents(close, tab) ==
    /\ cpc = "frame"
    /\ window_open
    /\ window_open' = ~close
    /\ do_interpolate' = IF tab THEN ~do_interpolate ELSE do_interpolate
    /\ cpc' = "check"
    /\ UNCHANGED << treeVars, render_previous, render_current, alpha,
                    consShared, simShared, spc >>

\* Line 359: if (update_done.load ())
ConsCheck ==
    /\ cpc = "check"
    /\ cpc' = IF update_done THEN "pause" ELSE "alpha"
    /\ UNCHANGED << treeVars, window_open, do_interpolate, render_previous,
                    render_current, alpha, consShared, simShared, spc >>

\* Line 363: do_update.store (0);
ConsPause ==
    /\ cpc = "pause"
    /\ do_update' = FALSE
    /\ cpc' = "copy_prev"
    /\ UNCHANGED << treeVars, window_open, do_interpolate, render_previous,
                    render_current, alpha, running, simShared, spc >>

\* Line 365: render_previous = points_previous;
ConsCopyPrev ==
    /\ cpc = "copy_prev"
    /\ render_previous' \in ReadVector(points_previous, spc = "swap1")
    /\ cpc' = "copy_cur"
    /\ UNCHANGED << treeVars, window_open, do_interpolate, render_current,
                    alpha, consShared, simShared, spc >>

\* Line 366: render_current = points_current;
ConsCopyCur ==
    /\ cpc = "copy_cur"
    /\ render_current' \in ReadVector(points_current, spc \in {"swap1", "swap2"})
    /\ cpc' = "ack"
    /\ UNCHANGED << treeVars, window_open, do_interpolate, render_previous,
                    alpha, consShared, simShared, spc >>

\* Line 367: update_done.store (0);
ConsAck ==
    /\ cpc = "ack"
    /\ update_done' = FALSE
    /\ cpc' = "resume"
    /\ UNCHANGED << treeVars, points_mutex, points_previous, points_current,
                    last_sim_update, sim_update_interval, local_points,
                    publishes, window_open, do_interpolate, render_previous,
                    render_current, alpha, consShared, spc >>

\* Line 376: do_update.store (1);
ConsResume ==
    /\ cpc = "resume"
    /\ do_update' = TRUE
    /\ cpc' = "alpha"
    /\ UNCHANGED << treeVars, window_open, do_interpolate, render_previous,
                    render_current, alpha, running, simShared, spc >>

\* Lines 379-384: elapsed from last_sim_update, and alpha from
\* sim_update_interval when interpolation is on; lines 386-424 draw.
ConsAlpha ==
    /\ cpc = "alpha"
    /\ alpha' \in
          IF ~do_interpolate THEN {"zero"}
          ELSE IF sim_update_interval = <<>> THEN {"indeterminate"}
          ELSE IF spc = "stamp" THEN {"clamped", "indeterminate"}
          ELSE {"clamped"}
    /\ cpc' = "frame"
    /\ UNCHANGED << treeVars, window_open, do_interpolate, render_previous,
                    render_current, consShared, simShared, spc >>

\* Line 426: running = false;
ConsStop ==
    /\ cpc = "stop"
    /\ running' = FALSE
    /\ cpc' = "join"
    /\ UNCHANGED << treeVars, window_open, do_interpolate, render_previous,
                    render_current, alpha, do_update, simShared, spc >>

\* Line 427: sim_thread.join ();
ConsJoin ==
    /\ cpc = "join"
    /\ spc = "done"
    /\ cpc' = "exit"
    /\ UNCHANGED << treeVars, window_open, do_interpolate, render_previous,
                    render_current, alpha, consShared, simShared, spc >>

ConsNext ==
    \/ ConsLoopExit
    \/ \E close \in BOOLEAN, tab \in BOOLEAN : ConsEvents(close, tab)
    \/ ConsCheck
    \/ ConsPause
    \/ ConsCopyPrev
    \/ ConsCopyCur
    \/ ConsAck
    \/ ConsResume
    \/ ConsAlpha
    \/ ConsStop
    \/ ConsJoin

(***************************************************************************)
(* Specifications.                                                         *)
(***************************************************************************)
vars == << treeVars, threadVars >>

\* Values for the assignments of lines 216-219: the program's, and the
\* program's with a negative theta, with a time step of 0, with a softening
\* of 0.  main goes from these assignments to the construction of sim_thread
\* (line 246) without reading the globals.
StartConfigs ==
    { ProgramConfig, [ProgramConfig EXCEPT !.THETA = 0 - 1],
      [ProgramConfig EXCEPT !.TIME_STEP = 0], [ProgramConfig EXCEPT !.SOFTENING = 0] }

StartInit ==
    /\ ThreadInit
    /\ root = NewRoot
    /\ bodies = <<>>
    /\ tpc = "build"
    /\ bh \in StartConfigs
    /\ local_bodies = <<>>
    /\ task = <<>>

Init == ThreadInit /\ TreeInit

Next == SimNext \/ ConsNext

\* The two threads of main.
Spec == Init /\ [][Next]_vars

\* The two threads of main, the simulation thread being scheduled fairly.
LiveSpec == Spec /\ WF_vars(SimNext)

\* The quadtree of one step.
TreeSpec == Init /\ [][TreeNext]_vars

\* The force pass of one step.
ForceInit == ThreadInit /\ PassInit

ForceSpec == ForceInit /\ [][PassNext]_vars

\* The two threads of main, lines 216-219 assigning the globals the values
\* of StartConfigs.
StartSpec == StartInit /\ [][Next]_vars

(***************************************************************************)
(* Reading a tree.                                                         *)
(***************************************************************************)
ChildIndexes(node) == { i \in 1..4 : node.children[i] # <<>> }

\* Every node of the tree below (and including) node.
RECURSIVE Nodes(_)
Nodes(node) ==
    {node} \cup UNION { Nodes(node.children[i][1]) : i \in ChildIndexes(node) }

InsideRoot(b) == contains(NewRoot.boundary, b.position)

RECURSIVE SumMass(_)
SumMass(seq) ==
    IF seq = <<>> THEN 0 ELSE seq[1].mass + SumMass(Tail(seq))

\* Every occupant below node lies inside its leaf's boundary and inside
\* each of the boundaries above it.
RECURSIVE OccupantsContained(_, _)
OccupantsContained(node, above) ==
    /\ node.point # <<>> =>
          \A b \in above \cup {node.boundary} : contains(b, node.point[1].position)
    /\ \A i \in ChildIndexes(node) :
          OccupantsContained(node.children[i][1], above \cup {node.boundary})

(***************************************************************************)
(* Claims about the quadtree (TreeSpec).                                   *)
(***************************************************************************)

\* C7: after quad_node_compute_mass on the root of a tree built by
\* quad_node_insert from any sequence of bodies, root.total_mass is the sum
\* of the masses of the bodies of the sequence that lie inside the root
\* boundary.
C7_MassConservation ==
    tpc = "mass" =>
        root.total_mass = SumMass(SelectSeq(bodies, InsideRoot))

\* C8: every node has no children or four; no node has an occupant and
\* children; a leaf holds at most one body; a node with neither occupant nor
\* children is an empty leaf.
C8_LeafInternalExclusivity ==
    \A n \in Nodes(root) :
        /\ Cardinality(ChildIndexes(n)) \in {0, 4}
        /\ ~(n.point # <<>> /\ ChildIndexes(n) # {})
        /\ Len(n.point) <= 1
        /\ (n.point = <<>> /\ ChildIndexes(n) = {}) =>
              (quad_node_is_leaf(n) /\ Nodes(n) = {n})

\* The tree holds an internal node, an occupied leaf and an empty leaf.
C8_Witness ==
    /\ ~quad_node_is_leaf(root)
    /\ \E n \in Nodes(root) : quad_node_is_leaf(n) /\ n.point # <<>>
    /\ \E n \in Nodes(root) : quad_node_is_leaf(n) /\ n.point = <<>>

\* C9: every body stored as the occupant of a leaf lies inside that leaf's
\* boundary and inside the boundary of every ancestor of the leaf.
C9_Containment == OccupantsContained(root, {})

\* Two bodies are stored in leaves below the root, after a body outside the
\* root boundary was offered too.
C9_Witness ==
    /\ Cardinality({ n \in Nodes(root) : n.point # <<>> }) >= 2
    /\ \E i \in 1..Len(bodies) : ~InsideRoot(bodies[i])

\* C10: quad_node_insert of a body outside a node's boundary leaves the
\* tree unchanged, and such a body adds nothing to root.total_mass.
C10_InsertOutsideUnchanged ==
    (tpc = "build" /\ Len(bodies') = Len(bodies) + 1
        /\ ~InsideRoot(bodies'[Len(bodies')])) => root' = root

C10_OutsideAddsNoMass ==
    /\ \A n \in Nodes(root) : \A p \in Bodies :
          ~contains(n.boundary, p.position) => quad_node_insert(n, p) = n
    /\ tpc = "mass" =>
          root.total_mass =
              quad_node_compute_mass(Build(SelectSeq(bodies, InsideRoot))).total_mass

C10_DropPolicy ==
    [][C10_InsertOutsideUnchanged]_vars /\ []C10_OutsideAddsNoMass

\* A body outside the root boundary was inserted among bodies inside it, and
\* the aggregated root has mass.
C10_Witness ==
    /\ tpc = "mass"
    /\ root.total_mass > 0
    /\ \E i \in 1..Len(bodies) : ~InsideRoot(bodies[i])
    /\ \E i \in 1..Len(bodies) : InsideRoot(bodies[i])

\* The sum of the total_mass of the four children of an internal node.
ChildrenMass(n) ==
    n.children[1][1].total_mass + n.children[2][1].total_mass
        + n.children[3][1].total_mass + n.children[4][1].total_mass

\* C14: after quad_node_compute_mass on the root of a tree built in the
\* current step, every internal node's total_mass is the sum of its four
\* children's, every occupied leaf has its occupant's mass and position,
\* every empty leaf has total_mass 0, and no node's center_of_mass comes from
\* a division by a zero total_mass.
C14_AggregationInvariant ==
    tpc = "mass" =>
        \A n \in Nodes(root) :
            /\ ~quad_node_is_leaf(n) => n.total_mass = ChildrenMass(n)
            /\ (quad_node_is_leaf(n) /\ n.point # <<>>) =>
                  /\ n.total_mass = n.point[1].mass
                  /\ n.center_of_mass = n.point[1].position
            /\ (quad_node_is_leaf(n) /\ n.point = <<>>) => n.total_mass = 0
            /\ IsFinite(n.center_of_mass[1]) /\ IsFinite(n.center_of_mass[2])

\* The aggregated tree holds an internal node with mass, an internal node
\* without (its subtree is empty), an occupied leaf and an empty leaf.
C14_Witness ==
    /\ tpc = "mass"
    /\ \E n \in Nodes(root) : ~quad_node_is_leaf(n) /\ n.total_mass > 0
    /\ \E n \in Nodes(root) : ~quad_node_is_leaf(n) /\ n.total_mass = 0
    /\ \E n \in Nodes(root) : quad_node_is_leaf(n) /\ n.point # <<>>
    /\ \E n \in Nodes(root) : quad_node_is_leaf(n) /\ n.point = <<>>

\* Calls of quad_node_insert nested in one another that a tree QT_SIZE wide
\* can need: one per halving of the boundary, which is at most 2 * QT_SIZE
\* wide, and the calls at both ends.
InsertFuel == 2 * QT_SIZE + 3

\* quad_node_insert (node, point) returns with at most fuel calls nested in
\* one another (lines 89-111, followed call by call).
RECURSIVE InsertEnds(_, _, _)
InsertEnds(node, point, fuel) ==
    IF fuel = 0 THEN FALSE
    ELSE IF ~contains(node.boundary, point.position) THEN TRUE
    ELSE IF quad_node_is_leaf(node) THEN
        IF node.point = <<>> THEN TRUE
        ELSE LET save == node.point[1]
                 sub == [quad_node_subdivide(node) EXCEPT !.point = <<>>]
             IN /\ \A i \in 1..4 : InsertEnds(sub.children[i][1], save, fuel - 1)
                /\ \A i \in 1..4 :
                      InsertEnds(InsertChildren(sub, save).children[i][1],
                                 point, fuel - 1)
    ELSE \A i \in 1..4 : InsertEnds(node.children[i][1], point, fuel - 1)

\* The depth of the tree below node.
RECURSIVE Depth(_)
Depth(node) ==
    IF quad_node_is_leaf(node) THEN 1
    ELSE 1 + Max(Max(Depth(node.children[1][1]), Depth(node.children[2][1])),
                 Max(Depth(node.children[3][1]), Depth(node.children[4][1])))

\* C16: for any sequence of bodies, bodies at one position included, every
\* quad_node_insert returns after finitely many subdivisions, and the
\* aggregation of the tree built so far is defined.
C16_InsertTerminates ==
    tpc = "build" =>
        /\ \A p \in Bodies : InsertEnds(root, p, InsertFuel)
        /\ Depth(root) <= InsertFuel
        /\ quad_node_compute_mass(root).total_mass \in 0..SumMass(bodies)

\* Two bodies at one position inside the root were inserted: the tree was
\* subdivided down to a boundary of width 0, and the step has gone on to the
\* aggregation.
C16_Witness ==
    /\ tpc = "mass"
    /\ \E i, j \in 1..Len(bodies) :
          i < j /\ bodies[i].position = bodies[j].position /\ InsideRoot(bodies[i])
    /\ \E n \in Nodes(root) : n.boundary.width = 0

(***************************************************************************)
(* Claims about the two threads (Spec, LiveSpec).                          *)
(***************************************************************************)
\* Positions from which the next instruction reads or writes points_previous,
\* points_current, last_sim_update or sim_update_interval.
SimAccesses == spc \in {"copy", "swap1", "swap2", "stamp"}
ConsAccesses == cpc \in {"copy_prev", "copy_cur", "alpha"}
\* The publish critical section of lines 285-293.
SimPublishing == spc \in {"swap1", "swap2", "stamp"}
\* Idle: between two steps; Parked: inside the wait loop of lines 249-254.
SimIdle == spc \in {"loop", "wait", "wait_run", "sleep"}
SimParked == spc \in {"wait_run", "sleep"}

\* C1: every read and write of the shared state, by either thread, is made
\* holding points_mutex, and main never reads it while the simulation thread
\* is in its publish critical section.
C1_AccessUnderMutex ==
    /\ SimAccesses => points_mutex = "sim"
    /\ ConsAccesses => points_mutex = "main"
    /\ ~(ConsAccesses /\ SimPublishing)

\* C2: the working copy a publish installs is the result of the step on the
\* snapshot that was current, and after k publishes points_current is the
\* result of step k and points_previous that of step k-1 (the initial bodies
\* for k = 0).
C2_PublishOrder ==
    /\ spc \in {"lock2", "swap1"} => local_points = StepResult(points_current)
    /\ spc \notin {"swap2", "stamp"} =>
          /\ points_current = publishes
          /\ points_previous = Max(publishes - 1, 0)
    /\ spc = "stamp" =>
          /\ points_current = publishes + 1
          /\ points_previous = publishes

\* Two publishes have completed.
C2_Witness ==
    /\ publishes = 2
    /\ points_current = 2
    /\ points_previous = 1
    /\ spc = "signal"

\* C3: a step starts from Idle only with do_update set; parked with
\* do_update clear, the thread stays parked, starts no step and publishes
\* nothing, and leaves only by exiting on a cleared running flag.
C3_StartNeedsPermission ==
    (SimIdle /\ ~SimIdle' /\ spc' # "done") => do_update

C3_ParkedStays ==
    (SimParked /\ ~do_update) =>
        /\ SimParked' \/ (spc' = "done" /\ ~running)
        /\ UNCHANGED << points_previous, points_current, publishes >>
        /\ update_done' => update_done

C3_PermissionGate ==
    [][C3_StartNeedsPermission]_vars /\ [][C3_ParkedStays]_vars

\* The thread sleeps in the wait loop while permission is withdrawn.
C3_Witness == spc = "sleep" /\ ~do_update /\ running

\* C4: once running is cleared while the thread waits in the loop of lines
\* 249-254, the thread starts no step, whatever do_update becomes.
C4_StopWhileParked ==
    [][(SimParked /\ ~running) => (SimParked' \/ spc' = "done")]_vars

\* C5: once running is cleared, the simulation thread eventually exits.
C5_StopTerminates == (~running) ~> (spc = "done")

\* The thread has exited and the join of line 427 has returned.
C5_Witness == ~running /\ spc = "done" /\ cpc = "exit" /\ publishes >= 1

\* C6: the thread exits only from Idle, never between the start of a step
\* and the end of its publish, and it leaves the published pair whole.
C6_ExitFromIdle == (spc # "done" /\ spc' = "done") => SimIdle

C6_ExitedWhole ==
    spc = "done" =>
        /\ points_mutex = "none"
        /\ local_points = EmptyVec
        /\ points_current = publishes
        /\ points_previous = Max(publishes - 1, 0)

C6_ExitBetweenSteps == [][C6_ExitFromIdle]_vars /\ []C6_ExitedWhole

\* Stop was requested and the thread, in the middle of its second publish,
\* has not exited.
C6_Witness == ~running /\ spc = "swap2" /\ publishes = 1

\* C17: the pair the consumer holds after the copies of lines 365-366 is a
\* consecutive pair: render_previous is the result of step k-1 and
\* render_current the result of step k for one k (the initial bodies twice
\* before the first capture).
C17_ConsecutivePair ==
    cpc # "copy_cur" =>
        \/ render_previous = 0 /\ render_current = 0
        \/ render_previous >= 0 /\ render_current = render_previous + 1

\* The last publish whose update_done.store (1) of line 300 has been made.
Signalled == IF spc = "signal" THEN publishes - 1 ELSE publishes

\* C18: when the consumer clears update_done (line 367), the pair it has just
\* copied is the pair of the last publish that was signalled.
C18_AckCopiedLatest ==
    [][(cpc = "ack" /\ cpc' = "resume") =>
          /\ render_current = Signalled
          /\ render_previous = Max(Signalled - 1, 0)]_vars

\* C19: the consumer reads sim_update_interval (line 384, taken when
\* do_interpolate is set) only after the simulation thread has written it.
C19_IntervalWrittenBeforeRead ==
    (cpc = "alpha" /\ do_interpolate) => sim_update_interval # <<>>

(***************************************************************************)
(* Claims about the force traversal (ForceSpec).                           *)
(***************************************************************************)
\* The thresholds the traversals are compared under.
Thetas == {0, 1, 2, 4}

\* Every task of the pass has ended and the tree is not yet freed.  The tree
\* and bodies, the bodies of the step as they were when the pass began, do
\* not change during the pass.
PassEnded == tpc = "force" /\ \A i \in DOMAIN task : task[i] = "done"

\* Nodes quad_node_compute_force is called on, for body number i of the step
\* as it was when the pass began, under each threshold.
Visited(i) ==
    [ theta \in Thetas |->
        ComputeForce(root, bodies[i], [bh EXCEPT !.THETA = theta]).visited ]

\* C11: for a fixed tree and a fixed querying body, and thresholds
\* theta1 <= theta2, quad_node_compute_force visits no more nodes with theta2
\* than with theta1.
C11_ThetaMonotone ==
    PassEnded =>
        \A i \in 1..Len(bodies) :
            LET visited == Visited(i)
            IN \A theta1, theta2 \in Thetas :
                  theta1 <= theta2 => visited[theta2] <= visited[theta1]

\* For some body the traversal under the largest threshold stops at the root
\* and the traversal under threshold 0 goes down to the leaves.
C11_Witness ==
    /\ PassEnded
    /\ \E i \in 1..Len(bodies) : Visited(i)[4] = 1 /\ Visited(i)[0] >= 5

\* The globals at values the program does not take too: theta 0 to 2, no
\* gravity, no time step, softening 0.
AnyConfigs ==
    { Config(theta, gravity_constant, time_step, softening) :
        theta \in Thetas, gravity_constant \in {0, 1, 8},
        time_step \in {0, 1, 2}, softening \in {0, 1, 2} }

\* The task of body i runs line 272 in this step.
ForceCall(i) == task[i] = "force" /\ task'[i] = "move"

\* C12: when the tree holds a single body and quad_node_compute_force is run
\* for that body against the root, the body's velocity is unchanged, for every
\* theta, gravity constant, time step and softening.
C12_CallKeepsVelocity ==
    (Len(bodies) = 1 /\ ForceCall(1)) =>
        local_bodies'[1].velocity = local_bodies[1].velocity

C12_AnyConfigKeepsVelocity ==
    (Len(bodies) = 1 /\ tpc = "force") =>
        \A g \in AnyConfigs :
            ComputeForce(root, bodies[1], g).point.velocity = bodies[1].velocity

C12_ZeroForceGuard ==
    [][C12_CallKeepsVelocity]_vars /\ []C12_AnyConfigKeepsVelocity

\* The traversal has run for the single body of the tree, a moving body
\* stored in the root, with softening 0.
C12_Witness ==
    /\ Len(bodies) = 1
    /\ task[1] = "move"
    /\ root.point = << bodies[1] >>
    /\ bodies[1].velocity # <<0, 0>>
    /\ bh.SOFTENING = 0

\* C15: a call quad_node_compute_force (root, body i) changes nothing but the
\* velocity of body i: no field of a tree node, no global, no other body,
\* and neither the mass nor the position of body i.
C15_CallFrame ==
    \A i \in DOMAIN task :
        ForceCall(i) =>
            /\ root' = root
            /\ bh' = bh
            /\ \A j \in DOMAIN task \ {i} : local_bodies'[j] = local_bodies[j]
            /\ local_bodies'[i].mass = local_bodies[i].mass
            /\ local_bodies'[i].position = local_bodies[i].position

\* The tasks of the parallel pass yield, whatever their interleaving, what
\* each yields run alone on the tree and the body the pass began with.
C15_SameUnderInterleaving ==
    /\ tpc = "force" =>
          \A i \in DOMAIN task : task[i] = "force" => local_bodies[i] = bodies[i]
    /\ PassEnded =>
          \A i \in DOMAIN task :
              local_bodies[i] = Moved(ComputeForce(root, bodies[i], bh).point, bh)

C15_ForceIsolated == [][C15_CallFrame]_vars /\ []C15_SameUnderInterleaving

\* Every task has ended over a tree of at least two bodies, and two bodies
\* come out of the pass with a velocity the traversal has changed.
C15_Witness ==
    /\ PassEnded
    /\ \E i, j \in DOMAIN task :
          /\ i # j
          /\ local_bodies[i].velocity # bodies[i].velocity
          /\ local_bodies[j].velocity # bodies[j].velocity

\* The occupied leaves below node, each as the pair of its path from the
\* root and its occupant.
RECURSIVE OccupiedLeaves(_, _)
OccupiedLeaves(node, path) ==
    IF quad_node_is_leaf(node)
    THEN IF node.point # <<>> THEN { << path, node.point[1] >> } ELSE {}
    ELSE UNION { OccupiedLeaves(node.children[i][1], Append(path, i)) : i \in 1..4 }

\* C20: with theta = 0, the nodes that contribute a velocity increment in
\* quad_node_compute_force are the occupied leaves whose occupant's position
\* differs from the querying body's, each exactly once.
C20_ExactAtThetaZero ==
    (PassEnded /\ bh.THETA = 0) =>
        \A i \in DOMAIN task :
            LET contributors == ComputeForce(root, bodies[i], bh).contributors
            IN /\ { contributors[k] : k \in DOMAIN contributors } =
                      { leaf[1] : leaf \in
                          { l \in OccupiedLeaves(root, <<>>) :
                              l[2].position # bodies[i].position } }
               /\ \A k, l \in DOMAIN contributors :
                      contributors[k] = contributors[l] => k = l

=============================================================================
